---- MODULE Spec2Model ----
(***************************************************************************)
(* Request governance of the MCP adapter servers: the rate limiters        *)
(* (checkRateLimit), the timeout wrappers (fetchWithTimeout, withTimeout)  *)
(* and the tool handlers that call them, for the five adapters brasil-api, *)
(* ploomes-crm, slack, brave-search and google-calendar.                   *)
(*                                                                         *)
(* Each adapter is a process of its own; a behaviour of the model is the   *)
(* life of one adapter process, chosen in Init.  Time is counted in ticks; *)
(* window lengths, quotas and timeouts are scaled down, keeping their      *)
(* order (second window < timeout < minute window).  The limiters are      *)
(* also run on their own, called at arbitrary times (LimiterSpec), next to *)
(* the reference limiters they are compared with.                          *)
(***************************************************************************)
EXTENDS Integers, Sequences, FiniteSets, TLC

\* ---------------------------------------------------------------- bounds
MaxTime == 6                \* last clock value explored
MaxInv == 1                 \* tool invocations that can be in flight together
MaxTasks == 3               \* async calls in flight at once (TaskSpec)
MaxEvents == 2              \* events listEvents returns to one findAvailability call
MaxSlotTime == 5            \* timeMin, timeMax and the events lie in 0..MaxSlotTime
MaxDuration == 2            \* durationMinutes is in 1..MaxDuration
MsPerMinute == 1            \* 60 * 1000, scaled: slot time units in a minute
MaxCalendars == 2          \* longest calendarIds array of find_availability
SecondMs == 2              \* the 1000 ms window, in ticks
MinuteMs == 4              \* the 60000 ms window, in ticks
MonthMs == 3               \* a month, in ticks (brave-search keeps no month length)
TimeoutMs == 3             \* the 15000 ms (ploomes-crm: 30000 ms) timeout, in ticks
PerSecondMax == 2          \* RATE_LIMIT.perSecond of the two-window adapters
PerMinuteMax == 4          \* RATE_LIMIT.perMinute of the two-window adapters
PerMonthMax == 2           \* RATE_LIMIT.perMonth of brave-search
windowMs == 3              \* google-calendar's 100 * 1000 ms window, in ticks
maxRequestsPerWindow == 2  \* google-calendar's 500 requests per window

\* ---------------------------------------------------------------- adapters
TwoWindowAdapters == {"brasil-api", "ploomes-crm", "slack"}
FetchAdapters == TwoWindowAdapters \cup {"brave-search"}
\* The google-calendar server as src/google-calendar/index.ts has it, and its
\* release 0.0.7, whose client retries after an authentication error.
CalendarAdapters == {"google-calendar", "google-calendar-0.0.7"}
Adapters == FetchAdapters \cup CalendarAdapters

Inv == 1..MaxInv
Slots == 1..2

\* The tools of each adapter that the model invokes: one tool per shape of
\* handler.  "unknown_tool" is a name brasil-api's switch does not know.
\* Release 0.0.7 of google-calendar is invoked with the tool whose client
\* method differs from src/google-calendar/index.ts.
Tools(a) ==
  CASE a = "brasil-api" -> {"brasil_cep", "brasil_bancos", "unknown_tool"}
    [] a = "ploomes-crm" -> {"ploomes_listar_clientes", "ploomes_obter_cliente"}
    [] a = "slack" -> {"slack_list_channels", "slack_post_message"}
    [] a = "brave-search" -> {"brave_web_search", "brave_local_search"}
    [] a = "google-calendar" -> {"list_calendars", "find_availability"}
    [] a = "google-calendar-0.0.7" -> {"list_calendars"}

\* RATE_LIMIT of each counter-based adapter.
RATE_LIMIT(a) ==
  IF a = "brave-search"
    THEN [perSecond |-> 1, perMonth |-> PerMonthMax]
    ELSE [perSecond |-> PerSecondMax, perMinute |-> PerMinuteMax]

VARIABLES
  adapter,            \* the adapter this process runs
  process,            \* the process: starting, running, unconnected or exited,
                      \* and what made it exit
  now,                \* Date.now()
  requestCount,       \* the counter-based adapters' requestCount object
  requestTimestamps,  \* google-calendar's requestTimestamps, by operation type
  pc,                 \* per invocation: "idle", "await" or "done"
  tool,               \* per invocation: the tool invoked
  phase,              \* per invocation: position inside the handler
  remaining,          \* per invocation: calendars findAvailability has still to list
  reqs,               \* per invocation and slot: outbound request and its timer
  outcomes,           \* per invocation: payloads returned to the caller
  issued,             \* per invocation: outbound requests started
  admissions,         \* per invocation: checkRateLimit calls that admitted it
  queryLog,           \* google-calendar: send times of the Calendar API queries
                      \* of the last windowMs
  last,               \* the latest checkRateLimit call and its verdict
  admitted,           \* calls admitted since the last reset of each window
  used,               \* the tools that were admitted at least once
  history,            \* LimiterSpec: per limiter key, the times of the admitted
                      \* calls that are at most Horizon old (TaskSpec: of all)
  reference,          \* LimiterSpec: per operation type, a fixed-window counter
                      \* and the verdicts of the reference limiters
  tasks,              \* TaskSpec: per concurrent async call, its position, its
                      \* tool, its verdict and the limiter state it read
  availability        \* SlotSpec: the parameters of one findAvailability call,
                      \* the events listEvents returned and the slots computed

vars == <<adapter, process, now, requestCount, requestTimestamps, pc, tool, phase,
          remaining, reqs, outcomes, issued, admissions, queryLog, last,
          admitted, used, history, reference, tasks,
          availability>>

limiterVars == <<requestCount, requestTimestamps, last, admitted, used>>
auxVars == <<history, reference, tasks, availability>>
callVars == <<pc, tool, phase, remaining, reqs, outcomes, issued, admissions>>

\* ---------------------------------------------------------------- limiters
\* Variant of ResetDue: a window is reset by the first call of every later
\* instant.
ResetDueAnyLater(t, lastReset, len) == t > lastReset

\* now - last...Reset > length
ResetDue(t, lastReset, len) == t - lastReset > len

\* The two reset blocks of the two-window checkRateLimit.
ApplyResets(rc, t) ==
  LET a == IF ResetDue(t, rc.lastSecondReset, SecondMs)
             THEN [rc EXCEPT !.second = 0, !.lastSecondReset = t]
             ELSE rc
  IN  IF ResetDue(t, a.lastMinuteReset, MinuteMs)
        THEN [a EXCEPT !.minute = 0, !.lastMinuteReset = t]
        ELSE a

\* Variants of LimitReached: a strict comparison, and a conjunction.
LimitReachedStrict(rc, lim) == rc.second > lim.perSecond \/ rc.minute > lim.perMinute
LimitReachedBoth(rc, lim) == rc.second >= lim.perSecond /\ rc.minute >= lim.perMinute

\* requestCount.second >= perSecond || requestCount.minute >= perMinute
LimitReached(rc, lim) == rc.second >= lim.perSecond \/ rc.minute >= lim.perMinute

\* Variant of checkRateLimitTwoWindow: a rejected call is counted as well.
checkRateLimitCountingRejections(rc, t, lim) ==
  LET r == ApplyResets(rc, t)
  IN  IF LimitReached(r, lim)
        THEN [ok |-> FALSE, rc |-> [r EXCEPT !.minute = @ + 1]]
        ELSE [ok |-> TRUE,
              rc |-> [r EXCEPT !.second = @ + 1, !.minute = @ + 1]]

\* checkRateLimit of brasil-api, ploomes-crm and slack: the verdict and the
\* requestCount it leaves behind (the resets stay applied when it throws).
checkRateLimitTwoWindow(rc, t, lim) ==
  LET r == ApplyResets(rc, t)
  IN  IF LimitReached(r, lim)
        THEN [ok |-> FALSE, rc |-> r]
        ELSE [ok |-> TRUE,
              rc |-> [r EXCEPT !.second = @ + 1, !.minute = @ + 1]]

\* Variant of ApplyResetBrave: the month counter is reset as well, once a
\* month has passed since the module was loaded.
ApplyResetBraveMonthly(rc, t) ==
  LET a == IF ResetDue(t, rc.lastReset, SecondMs)
             THEN [rc EXCEPT !.second = 0, !.lastReset = t]
             ELSE rc
  IN  IF ResetDue(t, 0, MonthMs) THEN [a EXCEPT !.month = 0] ELSE a

\* The only reset block of brave-search's checkRateLimit.
ApplyResetBrave(rc, t) ==
  IF ResetDue(t, rc.lastReset, SecondMs)
    THEN [rc EXCEPT !.second = 0, !.lastReset = t]
    ELSE rc

\* requestCount.second >= perSecond || requestCount.month >= perMonth
LimitReachedBrave(rc, lim) == rc.second >= lim.perSecond \/ rc.month >= lim.perMonth

\* Variant of checkRateLimitBrave: an admitted call is not counted in the month.
checkRateLimitBraveSecondOnly(rc, t, lim) ==
  LET r == ApplyResetBrave(rc, t)
  IN  IF LimitReachedBrave(r, lim)
        THEN [ok |-> FALSE, rc |-> r]
        ELSE [ok |-> TRUE, rc |-> [r EXCEPT !.second = @ + 1]]

\* checkRateLimit of brave-search.
checkRateLimitBrave(rc, t, lim) ==
  LET r == ApplyResetBrave(rc, t)
  IN  IF LimitReachedBrave(r, lim)
        THEN [ok |-> FALSE, rc |-> r]
        ELSE [ok |-> TRUE,
              rc |-> [r EXCEPT !.second = @ + 1, !.month = @ + 1]]

\* Variant of TimestampKey: one list for every operation type.
TimestampKeyShared(operationType) == "list_calendars"

\* The key under which google-calendar stores an operation type's timestamps.
TimestampKey(operationType) == operationType

\* Variant of RecentTimestamps: a timestamp is kept until it is more than
\* windowMs old.
RecentTimestampsInclusive(ts, t) == SelectSeq(ts, LAMBDA x : t - x <= windowMs)

\* Variant of RecentTimestamps: the whole list is dropped once its oldest
\* timestamp is windowMs old, nothing is dropped before.
RecentTimestampsAllOrNone(ts, t) ==
  IF ts # <<>> /\ t - ts[1] >= windowMs THEN <<>> ELSE ts

\* requestTimestamps[operationType].filter(timestamp => now - timestamp < windowMs)
RecentTimestamps(ts, t) == SelectSeq(ts, LAMBDA x : t - x < windowMs)

\* checkRateLimit of google-calendar: the verdict and the stored list.
checkRateLimitCalendar(ts, t) ==
  LET f == RecentTimestamps(ts, t)
  IN  IF Len(f) >= maxRequestsPerWindow
        THEN [ok |-> FALSE, ts |-> f]
        ELSE [ok |-> TRUE, ts |-> Append(f, t)]

\* ---------------------------------------------------------------- one call of the limiter
\* The limiter state threaded through the checkRateLimit calls of one step.
LimiterState ==
  [rc |-> requestCount, ts |-> requestTimestamps, last |-> last,
   adm |-> admitted, used |-> used]

\* Calls admitted since the last reset of a window: back to 0 when the
\* window's start time moves, one more when the call is admitted.
CountSince(n, startBefore, startAfter, ok) ==
  (IF startAfter # startBefore THEN 0 ELSE n) + (IF ok THEN 1 ELSE 0)

\* Date.now() when the module was loaded and requestCount was initialised.
ProcessStart == 0

\* Before a call at time t: the length of every window of the limiter has
\* elapsed since the window was last started (for google-calendar: every
\* stored timestamp of the operation type is at least windowMs old).
\* brave-search's month started at ProcessStart and is never started again.
WindowsElapsed(a, L, tl, t) ==
  IF a \in CalendarAdapters
    THEN \A j \in 1..Len(L.ts[tl]) : t - L.ts[tl][j] >= windowMs
  ELSE IF a = "brave-search"
    THEN t - L.rc.lastReset > SecondMs /\ t - ProcessStart > MonthMs
  ELSE t - L.rc.lastSecondReset > SecondMs /\ t - L.rc.lastMinuteReset > MinuteMs

\* checkRateLimit as adapter a runs it for tool tl at time t.
Check(a, L, tl, t) ==
  LET r == IF a \in CalendarAdapters
             THEN LET k == TimestampKey(tl)
                      c == checkRateLimitCalendar(L.ts[k], t)
                  IN  [ok |-> c.ok, rc |-> L.rc,
                       ts |-> [L.ts EXCEPT ![k] = c.ts], adm |-> L.adm]
           ELSE IF a = "brave-search"
             THEN LET c == checkRateLimitBrave(L.rc, t, RATE_LIMIT(a))
                  IN  [ok |-> c.ok, rc |-> c.rc, ts |-> L.ts,
                       adm |-> [short |-> CountSince(L.adm.short, L.rc.lastReset,
                                                     c.rc.lastReset, c.ok),
                                long |-> CountSince(L.adm.long, 0, 0, c.ok)]]
           ELSE LET c == checkRateLimitTwoWindow(L.rc, t, RATE_LIMIT(a))
                IN  [ok |-> c.ok, rc |-> c.rc, ts |-> L.ts,
                     adm |-> [short |-> CountSince(L.adm.short, L.rc.lastSecondReset,
                                                   c.rc.lastSecondReset, c.ok),
                              long |-> CountSince(L.adm.long, L.rc.lastMinuteReset,
                                                  c.rc.lastMinuteReset, c.ok)]]
  IN  [ok |-> r.ok, rc |-> r.rc, ts |-> r.ts,
       last |-> [tool |-> tl, ok |-> r.ok, due |-> WindowsElapsed(a, L, tl, t)],
       adm |-> r.adm,
       used |-> IF r.ok THEN L.used \cup {tl} ELSE L.used]

SetLimiter(L) ==
  /\ requestCount' = L.rc
  /\ requestTimestamps' = L.ts
  /\ last' = L.last
  /\ admitted' = L.adm
  /\ used' = L.used

\* ---------------------------------------------------------------- payloads
\* The catch block of a tool handler.  brasil-api answers
\* { error: { message } }, the other adapters { content, isError: true }.
ErrorPayload(a, text, cause) ==
  [failed |-> TRUE, isError |-> (a # "brasil-api"), text |-> text, cause |-> cause]

\* The success return of a tool handler.
ResultPayload(text) ==
  [failed |-> FALSE, isError |-> FALSE, text |-> text, cause |-> "op"]

\* ---------------------------------------------------------------- outbound requests
NoReq == [st |-> "none", timer |-> "none", deadline |-> 0]

\* fetchWithTimeout up to its await: setTimeout(abort, timeout), then fetch.
\* withTimeout up to its await: setTimeout(reject, timeoutMs), then operation().
StartReq(t) == [st |-> "inflight", timer |-> "armed", deadline |-> t + TimeoutMs]

NoReqs == [s \in Slots |-> NoReq]

\* No request of invocation i is under way and none of its timers is pending.
Quiescent(i) ==
  \A s \in Slots : /\ reqs[i][s].st \notin {"inflight", "body", "errbody"}
                   /\ reqs[i][s].timer # "armed"

\* Invocation i can be reused for the caller's next request: its handler has
\* returned and nothing it started is left.  The caller's requests take the
\* lowest free invocation.
Free(i) == pc[i] # "await" /\ Quiescent(i)

\* The record of the Calendar API queries sent, one more at time t when the
\* adapter is a google-calendar server.
Logged(log, t) == IF adapter \in CalendarAdapters THEN Append(log, t) ELSE log

\* ---------------------------------------------------------------- reference limiters
\* The key under which an adapter counts a tool's calls: google-calendar by
\* operation type, the other adapters in one requestCount.
LimiterKey(a, tl) == IF a \in CalendarAdapters THEN TimestampKey(tl) ELSE "all"

HistoryKeys == Tools("google-calendar") \cup {"all"}

\* How far back the admitted calls are remembered: the longest window that
\* is measured on them.
Horizon == IF windowMs > MinuteMs THEN windowMs ELSE MinuteMs

\* The fixed-window counter of the specification (section 3, checkLimit) for
\* one window of maxRequestsPerWindow per windowMs: reset when elapsed >
\* window length, reject when count >= maximum, increment otherwise.
FixedWindowCheck(w, t) ==
  LET r == IF t - w.windowStartTime > windowMs
             THEN [count |-> 0, windowStartTime |-> t]
             ELSE [count |-> w.count, windowStartTime |-> w.windowStartTime]
  IN  IF r.count >= maxRequestsPerWindow
        THEN [ok |-> FALSE, count |-> r.count, windowStartTime |-> r.windowStartTime]
        ELSE [ok |-> TRUE, count |-> r.count + 1, windowStartTime |-> r.windowStartTime]

\* The admitted calls of a log that are younger than len at time t.
Younger(log, t, len) == SelectSeq(log, LAMBDA x : t - x < len)

\* The admitted calls of a log that are at most len old at time t: those of
\* the interval [t - len, t].
Within(log, t, len) == SelectSeq(log, LAMBDA x : t - x <= len)

\* A sliding log of maxRequestsPerWindow per windowMs: a call is admitted
\* when fewer than the maximum were admitted less than windowMs ago.
SlidingLogAdmits(log, t) == Len(Younger(log, t, windowMs)) < maxRequestsPerWindow

Tasks == 1..MaxTasks

\* ---------------------------------------------------------------- findAvailability
\* No findAvailability call has been made.
NoAvailability ==
  [timeMin |-> 0, timeMax |-> 0, durationMinutes |-> 1, events |-> <<>>,
   availableSlots |-> <<>>, returned |-> FALSE]

\* event.transparency as the Calendar API returns it: the field is absent, or
\* it is "opaque" (the event blocks time) or "transparent" (it does not).
Transparencies == {"absent", "opaque", "transparent"}

\* !event.transparency
NoTransparency(e) == e.transparency = "absent"

\* Variant of BusyFilter: no event is left out.
BusyFilterAll(e) == TRUE

\* event.start && event.end && !event.transparency
BusyFilter(e) == NoTransparency(e)

\* .sort((a, b) => a.start.getTime() - b.start.getTime()): a stable sort by
\* start time.
RECURSIVE SortByStart(_)
SortByStart(es) ==
  IF es = <<>> THEN <<>>
  ELSE LET sorted == SortByStart(SubSeq(es, 1, Len(es) - 1))
           e == es[Len(es)]
           before == SelectSeq(sorted, LAMBDA x : x.start <= e.start)
           after == SelectSeq(sorted, LAMBDA x : x.start > e.start)
       IN  before \o <<e>> \o after

\* The busy times findAvailability works on.
busyTimes(events) == SortByStart(SelectSeq(events, BusyFilter))

\* Variant of GapFits: any gap takes a slot.
GapFitsAlways(gap, durationMs) == gap > 0

\* busy.start.getTime() - currentTime.getTime() >= durationMs, and the same
\* comparison against endTime after the loop.
GapFits(gap, durationMs) == gap >= durationMs

\* The loop over busyTimes from index j on, with currentTime and the slots
\* pushed so far, followed by the check against endTime.
RECURSIVE ScanBusy(_, _, _, _, _, _)
ScanBusy(busy, j, currentTime, slots, durationMs, endTime) ==
  IF j > Len(busy)
    THEN IF GapFits(endTime - currentTime, durationMs)
           THEN Append(slots, [start |-> currentTime, end |-> currentTime + durationMs])
           ELSE slots
    ELSE LET pushed == IF GapFits(busy[j].start - currentTime, durationMs)
                         THEN Append(slots, [start |-> currentTime,
                                             end |-> currentTime + durationMs])
                         ELSE slots
             next == IF busy[j].end > currentTime THEN busy[j].end ELSE currentTime
         IN  ScanBusy(busy, j + 1, next, pushed, durationMs, endTime)

\* findAvailability: the availableSlots it returns for the listed events.
findAvailability(timeMin, timeMax, durationMinutes, events) ==
  ScanBusy(busyTimes(events), 1, timeMin, <<>>, durationMinutes * MsPerMinute, timeMax)

AuxInit ==
  /\ history = [k \in HistoryKeys |-> <<>>]
  /\ tasks = [i \in Tasks |-> [at |-> "idle", tool |-> "none", ok |-> FALSE, seen |-> <<>>]]
  /\ reference = [k \in Tools("google-calendar") |->
                    [count |-> 0, windowStartTime |-> ProcessStart,
                     fixed |-> TRUE, sliding |-> TRUE]]

\* ---------------------------------------------------------------- Init
InitCount(a, t) ==
  IF a \in CalendarAdapters THEN <<>>
  ELSE IF a = "brave-search" THEN [second |-> 0, month |-> 0, lastReset |-> t]
  ELSE [second |-> 0, minute |-> 0, lastSecondReset |-> t, lastMinuteReset |-> t]

Init ==
  /\ adapter \in Adapters
  /\ process = [state |-> "starting", cause |-> "none"]
  /\ now = ProcessStart
  /\ requestCount = InitCount(adapter, ProcessStart)
  /\ requestTimestamps = [k \in Tools("google-calendar") |-> <<>>]
  /\ pc = [i \in Inv |-> "idle"]
  /\ tool = [i \in Inv |-> "none"]
  /\ phase = [i \in Inv |-> "none"]
  /\ remaining = [i \in Inv |-> 0]
  /\ reqs = [i \in Inv |-> NoReqs]
  /\ outcomes = [i \in Inv |-> <<>>]
  /\ issued = [i \in Inv |-> 0]
  /\ admissions = [i \in Inv |-> 0]
  /\ queryLog = <<>>
  /\ last = [tool |-> "none", ok |-> TRUE, due |-> FALSE]
  /\ admitted = [short |-> 0, long |-> 0]
  /\ used = {}
  /\ AuxInit
  /\ availability = NoAvailability

\* ---------------------------------------------------------------- the process
\* The server is connected and serves tool calls.
Running == process.state = "running"

\* The adapters that end the process when a startup step fails: brave-search
\* at module level, ploomes-crm in the catch block of main, slack in main and
\* in main().catch.
RequiredCredentials(a) == a \in {"brave-search", "ploomes-crm", "slack"}

\* The adapters whose main lets an error of mcpServer.connect reach
\* process.exit(1); the others log it and return.
ExitsOnConnectError(a) == a \in {"ploomes-crm", "slack"}

\* The module's top level and main(): the check of the credentials, then
\* the connection of the server to its stdio transport.
Start(credentials, connected) ==
  /\ process.state = "starting"
  /\ process' =
       IF RequiredCredentials(adapter) /\ ~credentials
         THEN [state |-> "exited", cause |-> "credentials"]
       ELSE IF connected THEN [state |-> "running", cause |-> "none"]
       ELSE IF ExitsOnConnectError(adapter)
         THEN [state |-> "exited", cause |-> "connect"]
       ELSE [state |-> "unconnected", cause |-> "none"]
  /\ UNCHANGED <<adapter, auxVars, now, limiterVars, callVars, queryLog>>

\* SIGINT or SIGTERM: the handler (slack: the default action) ends the process.
Signal ==
  /\ process.state \in {"running", "unconnected"}
  /\ process' = [state |-> "exited", cause |-> "signal"]
  /\ UNCHANGED <<adapter, auxVars, now, limiterVars, callVars, queryLog>>

\* The adapters whose main registers listeners for 'uncaughtException' and
\* 'unhandledRejection' that only log; slack's main registers none.
HooksInstalled(a) == a # "slack"

\* An exception escapes every try block, or a promise is rejected with no
\* handler attached, while the server runs.  The listeners log it and the
\* process goes on; without listeners the runtime ends the process.
Uncaught ==
  /\ Running
  /\ process' = IF HooksInstalled(adapter)
                  THEN process
                  ELSE [state |-> "exited", cause |-> "uncaught"]
  /\ UNCHANGED <<adapter, auxVars, now, limiterVars, callVars, queryLog>>

\* ---------------------------------------------------------------- the clock
\* The clock runs to MaxTime, and further while a timer is still pending.
Tick ==
  /\ Running
  /\ \/ now < MaxTime
     \/ \E i \in Inv, s \in Slots :
          reqs[i][s].timer = "armed" /\ reqs[i][s].deadline > now
  /\ now' = now + 1
  /\ queryLog' = SelectSeq(queryLog, LAMBDA x : now' - x < windowMs)
  /\ UNCHANGED <<adapter, auxVars, process, limiterVars, callVars>>

\* ---------------------------------------------------------------- handlers
\* Variant of ClearTimeout: the pending timer is left armed.
ClearTimeoutForgotten(r) == r

\* clearTimeout(timeoutId) on a request record: a pending timer is cancelled.
ClearTimeout(r) ==
  IF r.timer = "armed" THEN [r EXCEPT !.timer = "cleared", !.deadline = 0] ELSE r

\* controller.abort(): the fetch, or the reading of its body, is torn down.
Abort(st) == IF st \in {"inflight", "body", "errbody"} THEN "aborted" ELSE st

\* Variant of Returned: the handler answers and stays where it was.
ReturnedNowhere(p) == p

\* The position of a handler after its try/catch returned a payload.
Returned(p) == "done"

\* The handler of invocation i returns payload p to the caller.
Surface(i, p) ==
  /\ outcomes' = [outcomes EXCEPT ![i] = Append(@, p)]
  /\ pc' = [pc EXCEPT ![i] = Returned(@)]

\* Variant of Awaited: a continuation answers even after the handler returned.
AwaitedAlways(i) == TRUE

\* The handler of invocation i is suspended at an await.
Awaited(i) == pc[i] = "await"

\* A continuation of invocation i throws: the handler's catch block answers
\* if the handler still awaits it, nobody observes it otherwise.
Throw(i, text, cause) ==
  IF Awaited(i)
    THEN Surface(i, ErrorPayload(adapter, text, cause))
    ELSE UNCHANGED <<pc, outcomes>>

\* What the handler checks before it reaches checkRateLimit: brasil-api's
\* "if (!args)", its type guards and the default branch of its switch.  The
\* other adapters receive arguments already parsed against their schema.
Validate(a, tl, args) ==
  IF a # "brasil-api" THEN "ok"
  ELSE IF args = "none" THEN "validation"
  ELSE IF tl = "unknown_tool" THEN "unknownTool"
  ELSE IF tl = "brasil_cep" /\ args = "bad" THEN "validation"
  ELSE "ok"

\* Tools whose request function answers { erro: ... } on a 404.
NotFoundTools == {"brasil_cep", "ploomes_obter_cliente"}

\* Variant of Reject: the rejected call is kept and sent once more.
RejectQueued(i, text, cause) ==
  /\ pc' = [pc EXCEPT ![i] = "await"]
  /\ outcomes' = [outcomes EXCEPT ![i] = <<>>]
  /\ phase' = [phase EXCEPT ![i] = "single"]
  /\ remaining' = [remaining EXCEPT ![i] = 0]
  /\ reqs' = [reqs EXCEPT ![i] = [NoReqs EXCEPT ![1] = StartReq(now)]]
  /\ issued' = [issued EXCEPT ![i] = 1]

\* The handler of invocation i throws before it started anything: its catch
\* block returns the error payload.
Reject(i, text, cause) ==
  /\ pc' = [pc EXCEPT ![i] = Returned(@)]
  /\ outcomes' = [outcomes EXCEPT ![i] = <<ErrorPayload(adapter, text, cause)>>]
  /\ phase' = [phase EXCEPT ![i] = "none"]
  /\ remaining' = [remaining EXCEPT ![i] = 0]
  /\ reqs' = [reqs EXCEPT ![i] = NoReqs]
  /\ issued' = [issued EXCEPT ![i] = 0]

\* A tool invocation, from the entry of its handler to its first await or
\* to its return.  args is the shape of brasil-api's arguments, n the number
\* of calendarIds of find_availability.
Invoke(i, tl, args, n) ==
  /\ Running
  /\ Free(i)
  /\ \A j \in Inv : j < i => ~Free(j)
  /\ tl \in Tools(adapter)
  /\ now <= MaxTime
  /\ tool' = [tool EXCEPT ![i] = tl]
  /\ UNCHANGED <<adapter, auxVars, process, now>>
  /\ LET v == Validate(adapter, tl, args)
         L == Check(adapter, LimiterState, tl, now)
     IN  IF v # "ok"
           THEN /\ Reject(i, v, "validation")
                /\ admissions' = [admissions EXCEPT ![i] = 0]
                /\ UNCHANGED <<limiterVars, queryLog>>
         ELSE IF ~L.ok
           THEN /\ Reject(i, "rateLimit", "limiter")
                /\ admissions' = [admissions EXCEPT ![i] = 0]
                /\ SetLimiter(L)
                /\ UNCHANGED queryLog
         ELSE IF tl = "find_availability" /\ n = 0
           THEN /\ Reject(i, "validation", "validation")
                /\ admissions' = [admissions EXCEPT ![i] = 1]
                /\ SetLimiter(L)
                /\ UNCHANGED queryLog
         ELSE /\ SetLimiter(L)
              /\ admissions' = [admissions EXCEPT ![i] = 1]
              /\ queryLog' = Logged(queryLog, now)
              /\ pc' = [pc EXCEPT ![i] = "await"]
              /\ outcomes' = [outcomes EXCEPT ![i] = <<>>]
              /\ phase' = [phase EXCEPT ![i] =
                             IF tl = "brave_local_search" THEN "initial" ELSE "single"]
              /\ remaining' = [remaining EXCEPT ![i] =
                                 IF tl = "find_availability" THEN n - 1 ELSE 0]
              /\ reqs' = [reqs EXCEPT ![i] = [NoReqs EXCEPT ![1] = StartReq(now)]]
              /\ issued' = [issued EXCEPT ![i] = 1]

\* The response of a fetch (status line and headers) arrives: fetchWithTimeout
\* clears its timer and returns the response; the request function looks at
\* response.ok.
HeadersArrive(i, s, status) ==
  /\ Running
  /\ adapter \in FetchAdapters
  /\ reqs[i][s].st = "inflight"
  /\ UNCHANGED <<adapter, auxVars, process, now, limiterVars, tool, phase, remaining, issued, admissions, queryLog>>
  /\ LET st2 == IF status = "ok" THEN "body"
                ELSE IF adapter = "brave-search" THEN "errbody"
                ELSE IF status = "notFound" /\ tool[i] \in NotFoundTools
                       /\ adapter # "slack" THEN "settled"
                ELSE "failed"
     IN  /\ reqs' = [reqs EXCEPT ![i][s] =
                       ClearTimeout([@ EXCEPT !.st = st2])]
         /\ IF st2 = "failed" THEN Throw(i, "http", "op")
            ELSE IF st2 = "settled" /\ Awaited(i)
              THEN Surface(i, ResultPayload("notFound"))
            ELSE UNCHANGED <<pc, outcomes>>

\* The fetch rejects by itself (network error): the catch block of
\* fetchWithTimeout clears the timer and rethrows.
FetchFails(i, s) ==
  /\ Running
  /\ adapter \in FetchAdapters
  /\ reqs[i][s].st = "inflight"
  /\ UNCHANGED <<adapter, auxVars, process, now, limiterVars, tool, phase, remaining, issued, admissions, queryLog>>
  /\ reqs' = [reqs EXCEPT ![i][s] =
                ClearTimeout([@ EXCEPT !.st = "failed"])]
  /\ Throw(i, "network", "op")

\* The reading of a response body (response.json(), response.text()) fails.
BodyFails(i, s) ==
  /\ Running
  /\ adapter \in FetchAdapters
  /\ reqs[i][s].st \in {"body", "errbody"}
  /\ UNCHANGED <<adapter, auxVars, process, now, limiterVars, tool, phase, remaining, issued, admissions, queryLog>>
  /\ reqs' = [reqs EXCEPT ![i][s].st = "failed"]
  /\ Throw(i, "body", "op")

\* The body of a response arrives and the request function goes on.  ids tells
\* whether the initial search of brave_local_search found location ids.
BodyArrives(i, s, ids) ==
  /\ Running
  /\ adapter \in FetchAdapters
  /\ reqs[i][s].st \in {"body", "errbody"}
  /\ UNCHANGED <<adapter, auxVars, process, now, tool, queryLog>>
  /\ IF reqs[i][s].st = "errbody"
       THEN \* throw new Error(`Brave API error: ... ${await response.text()}`)
            /\ reqs' = [reqs EXCEPT ![i][s].st = "failed"]
            /\ Throw(i, "http", "op")
            /\ UNCHANGED <<limiterVars, phase, remaining, issued, admissions>>
     ELSE IF ~Awaited(i) \/ phase[i] \in {"single", "fallback"}
       THEN /\ reqs' = [reqs EXCEPT ![i][s].st = "settled"]
            /\ IF Awaited(i) THEN Surface(i, ResultPayload("result"))
                             ELSE UNCHANGED <<pc, outcomes>>
            /\ UNCHANGED <<limiterVars, phase, remaining, issued, admissions>>
     ELSE IF phase[i] = "parallel"
       THEN \* Promise.all resolves when both requests have
            /\ reqs' = [reqs EXCEPT ![i][s].st = "settled"]
            /\ IF \A o \in Slots \ {s} : reqs[i][o].st = "settled"
                 THEN Surface(i, ResultPayload("localResults"))
                 ELSE UNCHANGED <<pc, outcomes>>
            /\ UNCHANGED <<limiterVars, phase, remaining, issued, admissions>>
     ELSE IF ~ids
       THEN \* locationIds.length === 0: return performWebSearch(query, count)
            LET L == Check(adapter, LimiterState, tool[i], now)
            IN  /\ SetLimiter(L)
                /\ UNCHANGED remaining
                /\ admissions' = [admissions EXCEPT ![i] = @ + (IF L.ok THEN 1 ELSE 0)]
                /\ IF L.ok
                     THEN /\ reqs' = [reqs EXCEPT ![i][s] = StartReq(now)]
                          /\ phase' = [phase EXCEPT ![i] = "fallback"]
                          /\ issued' = [issued EXCEPT ![i] = @ + 1]
                          /\ UNCHANGED <<pc, outcomes>>
                     ELSE /\ reqs' = [reqs EXCEPT ![i][s].st = "settled"]
                          /\ Surface(i, ErrorPayload(adapter, "rateLimit", "limiter"))
                          /\ UNCHANGED <<phase, issued>>
     ELSE \* Promise.all([getPoisData(ids), getDescriptionsData(ids)])
          LET L1 == Check(adapter, LimiterState, tool[i], now)
              L2 == Check(adapter, L1, tool[i], now)
              r1 == IF L1.ok THEN StartReq(now) ELSE NoReq
              r2 == IF L2.ok THEN StartReq(now) ELSE NoReq
          IN  /\ SetLimiter(L2)
              /\ UNCHANGED remaining
              /\ admissions' = [admissions EXCEPT ![i] =
                                  @ + (IF L1.ok THEN 1 ELSE 0) + (IF L2.ok THEN 1 ELSE 0)]
              /\ reqs' = [reqs EXCEPT ![i] = [o \in Slots |-> IF o = 1 THEN r1 ELSE r2]]
              /\ phase' = [phase EXCEPT ![i] = "parallel"]
              /\ issued' = [issued EXCEPT ![i] =
                              @ + (IF L1.ok THEN 1 ELSE 0) + (IF L2.ok THEN 1 ELSE 0)]
              /\ IF L1.ok /\ L2.ok
                   THEN UNCHANGED <<pc, outcomes>>
                   ELSE Surface(i, ErrorPayload(adapter, "rateLimit", "limiter"))

\* What the timer callback of withTimeout does to the raced operation: it
\* only rejects the race, the operation is left running.
RaceLoser(st) == st

\* A timer set by fetchWithTimeout or withTimeout fires.
TimerFires(i, s) ==
  /\ Running
  /\ reqs[i][s].timer = "armed"
  /\ now >= reqs[i][s].deadline
  /\ UNCHANGED <<adapter, auxVars, process, now, limiterVars, tool, phase, remaining, issued, admissions, queryLog>>
  /\ IF adapter \in FetchAdapters
       THEN \* controller.abort(): the fetch (or the body read) rejects
            /\ reqs' = [reqs EXCEPT ![i][s] =
                          [@ EXCEPT !.st = Abort(@), !.timer = "fired", !.deadline = 0]]
            /\ IF reqs[i][s].st \in {"inflight", "body", "errbody"}
                 THEN Throw(i, "abort", "timer")
                 ELSE UNCHANGED <<pc, outcomes>>
       ELSE \* reject(new Error(`Operation timed out after ${timeoutMs}ms`))
            /\ reqs' = [reqs EXCEPT ![i][s] =
                          [@ EXCEPT !.st = RaceLoser(@), !.timer = "fired", !.deadline = 0]]
            /\ Throw(i, "timeout", "timer")

\* The client methods whose catch block, on an 'Invalid Credentials' error,
\* refreshes the token and sends the request once more (release 0.0.7:
\* listCalendars and createEvent).
RetriesAfterAuthError(a, tl) == a = "google-calendar-0.0.7" /\ tl = "list_calendars"

\* google-calendar: a Calendar API call of the operation settles ("ok",
\* "error", or "authError" for an 'Invalid Credentials' answer).
\* findAvailability lists the next calendar after a successful listEvents; it
\* does so whether or not the handler still awaits it.
OpSettles(i, r) ==
  /\ Running
  /\ adapter \in CalendarAdapters
  /\ reqs[i][1].st = "inflight"
  /\ UNCHANGED <<adapter, auxVars, process, now, limiterVars, tool, admissions>>
  /\ IF r = "ok" /\ remaining[i] > 0
       THEN /\ remaining' = [remaining EXCEPT ![i] = @ - 1]
            /\ issued' = [issued EXCEPT ![i] = @ + 1]
            /\ queryLog' = Logged(queryLog, now)
            /\ UNCHANGED <<reqs, pc, outcomes, phase>>
     ELSE IF r = "authError" /\ RetriesAfterAuthError(adapter, tool[i]) /\ phase[i] = "single"
       THEN \* await this.forceTokenRefresh(); this.calendar.calendarList.list(...)
            /\ phase' = [phase EXCEPT ![i] = "retry"]
            /\ issued' = [issued EXCEPT ![i] = @ + 1]
            /\ queryLog' = Logged(queryLog, now)
            /\ UNCHANGED <<remaining, reqs, pc, outcomes>>
       ELSE /\ UNCHANGED <<remaining, issued, phase, queryLog>>
            /\ LET q == [reqs[i][1] EXCEPT !.st = IF r = "ok" THEN "settled" ELSE "failed"]
               IN  reqs' = [reqs EXCEPT ![i][1] = IF Awaited(i) THEN ClearTimeout(q) ELSE q]
            /\ IF r = "ok"
                 THEN IF Awaited(i) THEN Surface(i, ResultPayload("result"))
                                    ELSE UNCHANGED <<pc, outcomes>>
                 ELSE Throw(i, "upstream", "op")

\* ---------------------------------------------------------------- specification
\* The argument shapes a caller can send: only brasil-api checks them itself.
ArgShapes(a) == IF a = "brasil-api" THEN {"none", "bad", "good"} ELSE {"good"}

\* The lengths of calendarIds a caller can send to a tool.
CalendarCounts(tl) == IF tl = "find_availability" THEN 0..MaxCalendars ELSE {1}

Statuses == {"ok", "notFound", "error"}

Next ==
  \/ \E credentials \in BOOLEAN, connected \in BOOLEAN : Start(credentials, connected)
  \/ Signal
  \/ Uncaught
  \/ Tick
  \/ \E i \in Inv, tl \in Tools(adapter) :
       \E args \in ArgShapes(adapter), n \in CalendarCounts(tl) : Invoke(i, tl, args, n)
  \/ \E i \in Inv, s \in Slots, status \in Statuses : HeadersArrive(i, s, status)
  \/ \E i \in Inv, s \in Slots : FetchFails(i, s)
  \/ \E i \in Inv, s \in Slots, ids \in BOOLEAN : BodyArrives(i, s, ids)
  \/ \E i \in Inv, s \in Slots : BodyFails(i, s)
  \/ \E i \in Inv, s \in Slots : TimerFires(i, s)
  \/ \E i \in Inv, r \in {"ok", "error", "authError"} : OpSettles(i, r)

Spec == Init /\ [][Next]_vars

\* ---------------------------------------------------------------- the limiter alone
\* The module is loaded and the server runs; no tool call is under way.
ServingInit ==
  /\ adapter \in Adapters
  /\ process = [state |-> "running", cause |-> "none"]
  /\ now = ProcessStart
  /\ requestCount = InitCount(adapter, ProcessStart)
  /\ requestTimestamps = [k \in Tools("google-calendar") |-> <<>>]
  /\ pc = [i \in Inv |-> "idle"]
  /\ tool = [i \in Inv |-> "none"]
  /\ phase = [i \in Inv |-> "none"]
  /\ remaining = [i \in Inv |-> 0]
  /\ reqs = [i \in Inv |-> NoReqs]
  /\ outcomes = [i \in Inv |-> <<>>]
  /\ issued = [i \in Inv |-> 0]
  /\ admissions = [i \in Inv |-> 0]
  /\ queryLog = <<>>
  /\ last = [tool |-> "none", ok |-> TRUE, due |-> FALSE]
  /\ admitted = [short |-> 0, long |-> 0]
  /\ used = {}
  /\ AuxInit

LimiterInit == ServingInit /\ availability = NoAvailability

\* Time passes between two calls of checkRateLimit.
LimiterTick ==
  /\ now < MaxTime
  /\ now' = now + 1
  /\ history' = [k \in HistoryKeys |-> SelectSeq(history[k], LAMBDA x : now' - x <= Horizon)]
  /\ UNCHANGED <<adapter, process, limiterVars, callVars, queryLog, reference, tasks,
                 availability>>

\* A handler of tool tl calls checkRateLimit at the current time.  Next to
\* it, the reference limiters give their verdict on the same call.
LimiterCall(tl) ==
  /\ tl \in Tools(adapter)
  /\ LET L == Check(adapter, LimiterState, tl, now)
         k == LimiterKey(adapter, tl)
     IN  /\ SetLimiter(L)
         /\ history' = IF L.ok THEN [history EXCEPT ![k] = Append(@, now)] ELSE history
         /\ reference' =
              IF adapter \in CalendarAdapters
                THEN LET f == FixedWindowCheck(reference[k], now)
                     IN  [reference EXCEPT ![k] =
                            [count |-> f.count, windowStartTime |-> f.windowStartTime,
                             fixed |-> f.ok,
                             sliding |-> SlidingLogAdmits(history[k], now)]]
                ELSE reference
  /\ UNCHANGED <<adapter, process, now, callVars, queryLog, tasks, availability>>

LimiterNext ==
  \/ LimiterTick
  \/ \E tl \in Tools(adapter) : LimiterCall(tl)

LimiterSpec == LimiterInit /\ [][LimiterNext]_vars

\* ---------------------------------------------------------------- concurrent calls
\* Variant of AwaitInsideCheckRateLimit: the function would suspend between
\* reading requestCount and writing it.
AwaitInsideCheckRateLimitAssumed == TRUE

\* checkRateLimit is a plain function without await: once called it runs to
\* its return or throw before any other callback of the event loop runs.
AwaitInsideCheckRateLimit == FALSE

\* Time passes while the async calls are suspended.
TaskTick ==
  /\ now < MaxTime
  /\ now' = now + 1
  /\ UNCHANGED <<adapter, process, limiterVars, callVars, queryLog, auxVars>>

\* The event loop runs async call i from where it stands to its next
\* suspension point: from its start through checkRateLimit to the await of
\* its outbound request (or to the throw of the limiter).
TaskCall(i, tl) ==
  /\ tasks[i].at \in {"idle", "read"}
  /\ tl \in Tools(adapter)
  /\ tasks[i].at = "read" => tl = tasks[i].tool
  /\ IF tasks[i].at = "idle" /\ AwaitInsideCheckRateLimit
       THEN /\ tasks' = [tasks EXCEPT ![i] = [at |-> "read", tool |-> tl, ok |-> FALSE,
                                              seen |-> LimiterState]]
            /\ UNCHANGED <<limiterVars, history>>
       ELSE LET L == Check(adapter,
                           IF tasks[i].at = "read" THEN tasks[i].seen ELSE LimiterState,
                           tl, now)
                k == LimiterKey(adapter, tl)
            IN  /\ SetLimiter(L)
                /\ history' = IF L.ok THEN [history EXCEPT ![k] = Append(@, now)]
                                      ELSE history
                /\ tasks' = [tasks EXCEPT ![i] =
                               [at |-> IF L.ok THEN "fetch" ELSE "done", tool |-> tl,
                                ok |-> L.ok, seen |-> <<>>]]
  /\ UNCHANGED <<adapter, process, now, callVars, queryLog, reference, availability>>

\* The outbound request of async call i settles and the call returns.
TaskSettles(i) ==
  /\ tasks[i].at = "fetch"
  /\ tasks' = [tasks EXCEPT ![i].at = "done"]
  /\ UNCHANGED <<adapter, process, now, limiterVars, callVars, queryLog, history,
                 reference, availability>>

TaskNext ==
  \/ TaskTick
  \/ \E i \in Tasks, tl \in Tools(adapter) : TaskCall(i, tl)
  \/ \E i \in Tasks : TaskSettles(i)

TaskSpec == LimiterInit /\ [][TaskNext]_vars

\* ---------------------------------------------------------------- findAvailability alone
SlotTimes == 0..MaxSlotTime

\* The events events.list can return for the range: those that end after
\* timeMin and start before timeMax, with start <= end.
ListedEvents(timeMin, timeMax) ==
  {e \in [start : SlotTimes, end : SlotTimes, transparency : Transparencies] :
     e.start <= e.end /\ e.end > timeMin /\ e.start < timeMax}

\* The sequences of at most MaxEvents elements of set S.
SeqsUpTo(S) == UNION {[1..n -> S] : n \in 0..MaxEvents}

\* A findAvailability call is about to compute its slots: the parameters are
\* given and the events of the calendars are listed.
SlotInit ==
  /\ ServingInit
  /\ adapter \in CalendarAdapters
  /\ \E timeMin \in SlotTimes, timeMax \in SlotTimes, d \in 1..MaxDuration :
       /\ timeMin < timeMax
       /\ \E es \in SeqsUpTo(ListedEvents(timeMin, timeMax)) :
            availability = [timeMin |-> timeMin, timeMax |-> timeMax,
                            durationMinutes |-> d, events |-> es,
                            availableSlots |-> <<>>, returned |-> FALSE]

\* findAvailability computes the slots and returns them.
SlotCall ==
  /\ ~availability.returned
  /\ availability' =
       [availability EXCEPT
          !.availableSlots = findAvailability(availability.timeMin, availability.timeMax,
                                              availability.durationMinutes,
                                              availability.events),
          !.returned = TRUE]
  /\ UNCHANGED <<adapter, process, now, limiterVars, callVars, queryLog, history,
                 reference, tasks>>

SlotNext == SlotCall

SlotSpec == SlotInit /\ [][SlotNext]_vars

\* The event loop: time passes and a timer that is due is run.  Nothing
\* obliges the upstream to answer or to finish a response.
FairSpec ==
  /\ Spec
  /\ WF_vars(Tick)
  /\ \A i \in Inv, s \in Slots : WF_vars(TimerFires(i, s))

TypeOK ==
  /\ adapter \in Adapters
  /\ now \in Nat
  /\ \A i \in Inv : pc[i] \in {"idle", "await", "done"}

\* ---------------------------------------------------------------- claims
Limits == RATE_LIMIT(adapter)

\* The handler of invocation i has returned payload text.
Answered(i, text) ==
  pc[i] = "done" /\ Len(outcomes[i]) = 1 /\ outcomes[i][1].text = text

\* C1: every window counter is at most its configured maximum in every
\* reachable state, and the number of calls admitted since the last reset of
\* a window is at most that window's maximum (google-calendar: the stored
\* list of an operation type never holds more than maxRequestsPerWindow).
CountersWithinQuota ==
  /\ adapter \in TwoWindowAdapters =>
       /\ requestCount.second <= Limits.perSecond
       /\ requestCount.minute <= Limits.perMinute
       /\ admitted.short <= Limits.perSecond
       /\ admitted.long <= Limits.perMinute
  /\ adapter = "brave-search" =>
       /\ requestCount.second <= Limits.perSecond
       /\ requestCount.month <= Limits.perMonth
       /\ admitted.short <= Limits.perSecond
       /\ admitted.long <= Limits.perMonth
  /\ adapter \in CalendarAdapters =>
       \A k \in DOMAIN requestTimestamps :
         Len(requestTimestamps[k]) <= maxRequestsPerWindow

\* A two-window limiter whose minute window is full rejects a call.
QuotaReachedAndEnforced ==
  /\ adapter \in TwoWindowAdapters
  /\ admitted.long = Limits.perMinute
  /\ requestCount.minute = Limits.perMinute
  /\ ~last.ok

\* C2 as stated: in every adapter a tool's quota is its own, so a call is
\* rejected only for a tool that was itself admitted before.
QuotaPerToolEverywhere == ~last.ok => last.tool \in used

\* C2 amended: google-calendar keeps one quota per operation type (a call is
\* rejected only when that type's own list is full); brasil-api, ploomes-crm,
\* slack and brave-search keep one quota for the process, whose counters
\* count the admitted calls of all tools together.
QuotaPerToolOnlyInCalendar ==
  /\ adapter \in CalendarAdapters =>
       (~last.ok => /\ last.tool \in used
                    /\ Len(requestTimestamps[last.tool]) >= maxRequestsPerWindow)
  /\ adapter \in TwoWindowAdapters =>
       /\ requestCount.second = admitted.short
       /\ requestCount.minute = admitted.long
  /\ adapter = "brave-search" =>
       /\ requestCount.second = admitted.short
       /\ requestCount.month = admitted.long

\* google-calendar admits find_availability while the list of list_calendars
\* is full of timestamps of the current window.
OtherTypeAdmittedWhileOneIsFull ==
  /\ adapter = "google-calendar"
  /\ last.ok /\ last.tool = "find_availability"
  /\ Len(requestTimestamps["list_calendars"]) = maxRequestsPerWindow
  /\ \A j \in 1..Len(requestTimestamps["list_calendars"]) :
       now - requestTimestamps["list_calendars"][j] < windowMs

\* C3 as stated: once the length of every window has elapsed since its last
\* reset, the next checkRateLimit call is admitted, whatever was used before.
ElapsedWindowsAdmit == last.due => last.ok

\* C4: a two-window limiter admits a call if and only if, after the due
\* resets, both counters are strictly below their maxima: a rejected call
\* leaves a counter at its maximum, an admitted call leaves both counters,
\* which it incremented, within theirs.
TwoWindowVerdict ==
  (adapter \in TwoWindowAdapters /\ last.tool # "none") =>
    IF last.ok
      THEN /\ requestCount.second - 1 < Limits.perSecond
           /\ requestCount.minute - 1 < Limits.perMinute
           /\ requestCount.second >= 1 /\ requestCount.minute >= 1
      ELSE \/ requestCount.second >= Limits.perSecond
           \/ requestCount.minute >= Limits.perMinute

\* A call is rejected by the per-second window alone: the second counter is
\* full, the minute counter is not.
RejectedBySecondWindowAlone ==
  /\ adapter \in TwoWindowAdapters
  /\ ~last.ok
  /\ requestCount.second = Limits.perSecond
  /\ requestCount.minute < Limits.perMinute

\* C5: the caller observes exactly one outcome per call: none while the
\* handler is suspended, one once it has returned, never two.
ExactlyOneOutcome ==
  \A i \in Inv :
    /\ Len(outcomes[i]) <= 1
    /\ pc[i] = "await" => Len(outcomes[i]) = 0
    /\ pc[i] = "done" => Len(outcomes[i]) = 1

\* A timer fired on a handler, which answered once, with the timer's error.
TimerWonTheRace ==
  \E i \in Inv, s \in Slots :
    /\ reqs[i][s].timer = "fired"
    /\ pc[i] = "done"
    /\ Len(outcomes[i]) = 1
    /\ outcomes[i][1].cause = "timer"

\* C6: no call hangs: with timers firing, every invocation that is suspended
\* on an outbound call eventually returns a payload, whatever the upstream
\* does, unless a signal ends the process first.
EveryCallReturns ==
  \A i \in Inv : (pc[i] = "await") ~> (pc[i] = "done" \/ process.state = "exited")

\* C7 as stated: in every adapter a request whose timer fired is no longer
\* in flight.
TimedOutRequestAborted ==
  \A i \in Inv, s \in Slots :
    reqs[i][s].timer = "fired" => reqs[i][s].st \notin {"inflight", "body", "errbody"}

\* The error text of a timeout: fetchWithTimeout rethrows the AbortError of
\* the aborted fetch, withTimeout rejects with "Operation timed out after ...".
TimeoutText == IF adapter \in FetchAdapters THEN "abort" ELSE "timeout"

\* C8: a timer fires no earlier than its deadline; when it fires on an
\* operation the handler still awaits, the handler returns the timeout error
\* in that step; and while something of a returned invocation is still under
\* way, whatever it does later changes neither the payload nor the number of
\* payloads the caller received.
TimeoutSurfacedOnce ==
  [][\A i \in Inv :
       /\ \A s \in Slots :
            (reqs[i][s].timer = "armed" /\ reqs'[i][s].timer = "fired") =>
              /\ now >= reqs[i][s].deadline
              /\ pc[i] = "await" =>
                   /\ pc'[i] = "done"
                   /\ outcomes'[i] = <<ErrorPayload(adapter, TimeoutText, "timer")>>
       /\ (pc[i] = "done" /\ ~Quiescent(i)) =>
            (pc'[i] = "done" /\ outcomes'[i] = outcomes[i])
    ]_vars

\* google-calendar: the operation settled after its timer had fired and the
\* caller holds the timeout error alone.
LateSettlementIgnored ==
  \E i \in Inv :
    /\ adapter = "google-calendar"
    /\ reqs[i][1].timer = "fired"
    /\ reqs[i][1].st \in {"settled", "failed"}
    /\ outcomes[i] = <<ErrorPayload(adapter, "timeout", "timer")>>

\* C9: once an operation has settled its timer is not pending any more (in
\* the fetch adapters it was cancelled, it never fires on a settled
\* request), and a handler none of whose timers fired did not answer with a
\* timeout error.
SettledOperationCancelsTimer ==
  \A i \in Inv :
    /\ \A s \in Slots :
         /\ reqs[i][s].timer = "armed" => reqs[i][s].st = "inflight"
         /\ (adapter \in FetchAdapters
             /\ reqs[i][s].st \in {"body", "errbody", "settled", "failed"}
             /\ reqs[i][s].timer # "none") => reqs[i][s].timer = "cleared"
    /\ (pc[i] = "done" /\ \A s \in Slots : reqs[i][s].timer # "fired") =>
         \A k \in 1..Len(outcomes[i]) : outcomes[i][k].cause # "timer"

\* An operation settled first: the caller holds its result and the timer is
\* cancelled.
OperationWonTheRace ==
  \E i \in Inv :
    /\ Answered(i, "result")
    /\ reqs[i][1].st = "settled"
    /\ reqs[i][1].timer = "cleared"

\* C10 as stated: in every adapter the payload of a failed call carries the
\* isError flag.
FailuresCarryIsError ==
  \A i \in Inv : \A k \in 1..Len(outcomes[i]) :
    outcomes[i][k].failed => outcomes[i][k].isError

\* The step is the entry of the caller's next request into the handler, as
\* invocation i: the server is running, i is the lowest free invocation and
\* is given the request's tool, the clock and the other invocations stand
\* still.
Entered(i) ==
  /\ Running /\ process' = process
  /\ Free(i) /\ \A j \in Inv : j < i => ~Free(j)
  /\ tool'[i] \in Tools(adapter)
  /\ now' = now
  /\ \A j \in Inv \ {i} :
       /\ pc'[j] = pc[j] /\ reqs'[j] = reqs[j]
       /\ issued'[j] = issued[j] /\ remaining'[j] = remaining[j]

\* C11 as stated: in every adapter a call the handler rejects for its
\* arguments (the step takes it from the handler's entry to a validation
\* error) leaves the limiter's state as it was and starts no
\* outbound request.
ValidationBeforeQuota ==
  [][\A i \in Inv :
       (/\ Entered(i)
        /\ pc'[i] = "done"
        /\ outcomes'[i] = <<ErrorPayload(adapter, outcomes'[i][1].text, "validation")>>)
       => /\ requestCount' = requestCount
          /\ requestTimestamps' = requestTimestamps
          /\ issued'[i] = 0
    ]_vars

\* C12 as stated: in every adapter an invocation has started no more
\* outbound requests than checkRateLimit calls admitted it.
OutboundWithinAdmissions == \A i \in Inv : issued[i] <= admissions[i]

\* C13: a call that enters the handler when the limiter has no quota left
\* for it is answered in that very step with an error payload (the rate-limit
\* error; brasil-api answers a call whose arguments are also invalid with its
\* validation error), and the step leaves nothing of the call behind: no
\* outbound request, no pending timer, nothing that would send it later.
RejectedOutright ==
  [][\A i \in Inv :
       (Entered(i) /\ ~Check(adapter, LimiterState, tool'[i], now).ok)
       => /\ pc'[i] = "done"
          /\ \/ outcomes'[i] = <<ErrorPayload(adapter, "rateLimit", "limiter")>>
             \/ /\ adapter = "brasil-api"
                /\ outcomes'[i] = <<ErrorPayload(adapter, outcomes'[i][1].text, "validation")>>
          /\ issued'[i] = 0
          /\ admissions'[i] = 0
          /\ reqs'[i] = NoReqs
    ]_vars

\* A call was rejected on entry: the caller holds the rate-limit error and
\* no request was started for it.
RejectedOnEntry ==
  \E i \in Inv :
    /\ Answered(i, "rateLimit")
    /\ ~last.ok /\ last.tool = tool[i]
    /\ admissions[i] = 0 /\ issued[i] = 0 /\ reqs[i] = NoReqs

\* The tools whose operation is a single outbound request.
SingleRequestTools ==
  UNION {Tools(a) : a \in Adapters} \ {"find_availability", "brave_local_search"}

\* C14 as stated: no handler is ever inside a second attempt of an operation,
\* and a tool whose operation is one request has sent at most one.
EachOperationAttemptedOnce ==
  \A i \in Inv :
    /\ phase[i] # "retry"
    /\ tool[i] \in SingleRequestTools => issued[i] <= 1

\* C15 as stated: a google-calendar server has sent at most
\* maxRequestsPerWindow Calendar API queries, of all its tools together,
\* within the last windowMs.
QueriesWithinUserQuota ==
  adapter \in CalendarAdapters => Len(queryLog) <= maxRequestsPerWindow

\* No outbound request of invocation i has failed: none was answered with an
\* error, none was cut off, none timed out.
UpstreamAnsweredAll(i) ==
  \A s \in Slots :
    reqs[i][s].st \notin {"failed", "aborted"} /\ reqs[i][s].timer # "fired"

\* C16 as stated: a brave_local_search whose initial search found location
\* ids (the handler went on to the two detail requests) and whose requests
\* the upstream all answered has returned the formatted local results.
LocalSearchReturnsLocalResults ==
  \A i \in Inv :
    (/\ tool[i] = "brave_local_search" /\ phase[i] = "parallel"
     /\ pc[i] = "done"
     /\ UpstreamAnsweredAll(i))
    => outcomes[i] = <<ResultPayload("localResults")>>

\* C17 as stated: a brave_local_search whose initial search was answered
\* without location ids (the handler did not go on to the detail requests)
\* and whose requests the upstream all answered has returned the web-search
\* results.
FallbackReturnsWebResults ==
  \A i \in Inv :
    (/\ tool[i] = "brave_local_search" /\ phase[i] \in {"initial", "fallback"}
     /\ pc[i] = "done"
     /\ UpstreamAnsweredAll(i))
    => outcomes[i] = <<ResultPayload("result")>>

\* C18 as stated: the process has exited only on a signal, or at startup for
\* missing credentials.
ExitOnlyBySignalOrCredentials ==
  process.state = "exited" => process.cause \in {"signal", "credentials"}

\* The step runs checkRateLimit once for invocation i and the call is
\* rejected: on the handler's entry, or before brave_local_search's fallback
\* request.
OneRejectedCheck(i) ==
  /\ outcomes'[i] = <<ErrorPayload(adapter, "rateLimit", "limiter")>>
  /\ \/ Entered(i)
     \/ pc[i] = "await" /\ phase'[i] = "initial"

\* C19 as stated: a rejected checkRateLimit call leaves every counter, every
\* window start time and every stored timestamp list as it was.
RejectionMutatesNothing ==
  [][\A i \in Inv :
       OneRejectedCheck(i) =>
         requestCount' = requestCount /\ requestTimestamps' = requestTimestamps
    ]_vars

\* A counter and its window start after a rejected call at time t: reset
\* (count 0, start t) when the window's length had elapsed, untouched
\* otherwise.
OnlyDueReset(count, start, countAfter, startAfter, t, len) ==
  IF t - start > len
    THEN countAfter = 0 /\ startAfter = t
    ELSE countAfter = count /\ startAfter = start

\* C19 amended: a rejected checkRateLimit call increments nothing; it leaves
\* google-calendar's timestamp lists and brave-search's month counter as they
\* were, and changes a second or minute counter and its window start only by
\* the reset of a window whose length has elapsed.
RejectionOnlyResetsDueWindows ==
  [][\A i \in Inv :
       OneRejectedCheck(i) =>
         /\ requestTimestamps' = requestTimestamps
         /\ adapter \in CalendarAdapters => requestCount' = requestCount
         /\ adapter \in TwoWindowAdapters =>
              /\ OnlyDueReset(requestCount.second, requestCount.lastSecondReset,
                              requestCount'.second, requestCount'.lastSecondReset,
                              now, SecondMs)
              /\ OnlyDueReset(requestCount.minute, requestCount.lastMinuteReset,
                              requestCount'.minute, requestCount'.lastMinuteReset,
                              now, MinuteMs)
         /\ adapter = "brave-search" =>
              /\ OnlyDueReset(requestCount.second, requestCount.lastReset,
                              requestCount'.second, requestCount'.lastReset,
                              now, SecondMs)
              /\ requestCount'.month = requestCount.month
    ]_vars

\* A two-window limiter rejected a call for its full second window and, in
\* the same call, reset the minute window, whose length had elapsed.
RejectedCallResetAWindow ==
  /\ adapter \in TwoWindowAdapters
  /\ ~last.ok
  /\ requestCount.second = Limits.perSecond
  /\ requestCount.minute = 0
  /\ requestCount.lastMinuteReset = now /\ now > ProcessStart

\* The step runs one checkRateLimit call that admits invocation i: on the
\* handler's entry, or before a later request of brave_local_search (whose
\* second detail request, checked in the same step, is rejected untouched).
OneAdmittedCheck(i) ==
  \/ Entered(i) /\ admissions'[i] = 1
  \/ pc[i] = "await" /\ admissions'[i] = admissions[i] + 1

\* A counter and its window start after an admitted call at time t: one more
\* than the counter's value after the reset that was due, if any.
CountedOnce(count, start, countAfter, startAfter, t, len) ==
  IF t - start > len
    THEN countAfter = 1 /\ startAfter = t
    ELSE countAfter = count + 1 /\ startAfter = start

\* C20: an admitted checkRateLimit call adds exactly 1 to every counter of
\* the limiter, counted from the counter's value after its due reset, and
\* changes nothing else: no window start but by a due reset, in brave-search
\* the month counter by exactly 1, in google-calendar only the list of the
\* operation type, which gains the call's timestamp.
AdmissionCountsOnce ==
  [][\A i \in Inv :
       OneAdmittedCheck(i) =>
         /\ adapter \in TwoWindowAdapters =>
              /\ CountedOnce(requestCount.second, requestCount.lastSecondReset,
                             requestCount'.second, requestCount'.lastSecondReset,
                             now, SecondMs)
              /\ CountedOnce(requestCount.minute, requestCount.lastMinuteReset,
                             requestCount'.minute, requestCount'.lastMinuteReset,
                             now, MinuteMs)
              /\ requestTimestamps' = requestTimestamps
         /\ adapter = "brave-search" =>
              /\ CountedOnce(requestCount.second, requestCount.lastReset,
                             requestCount'.second, requestCount'.lastReset,
                             now, SecondMs)
              /\ requestCount'.month = requestCount.month + 1
              /\ requestTimestamps' = requestTimestamps
         /\ adapter \in CalendarAdapters =>
              /\ requestCount' = requestCount
              /\ \A k \in DOMAIN requestTimestamps :
                   requestTimestamps'[k] =
                     IF k = tool'[i]
                       THEN Append(RecentTimestamps(requestTimestamps[k], now), now)
                       ELSE requestTimestamps[k]
    ]_vars

\* A two-window limiter admitted a call after resetting the second window
\* alone: the second counter restarted at 1, the minute counter went on.
AdmittedAfterSecondReset ==
  /\ adapter \in TwoWindowAdapters
  /\ last.ok
  /\ requestCount.second = 1
  /\ requestCount.lastSecondReset = now /\ now > ProcessStart
  /\ requestCount.minute > 1
  /\ requestCount.lastMinuteReset < now

\* C21 as stated: google-calendar's checkRateLimit gives every call the
\* verdict of a fixed-window counter of maxRequestsPerWindow per windowMs
\* that is given the same calls.
CalendarIsFixedWindow ==
  (adapter \in CalendarAdapters /\ last.tool # "none") =>
    last.ok = reference[last.tool].fixed

\* C21 amended: the limiters of brasil-api, ploomes-crm, slack and
\* brave-search are fixed-window counters, whose counters hold the calls
\* admitted since the window's last full reset; google-calendar's is a sliding
\* log: it gives every call the verdict of a log that forgets each admitted
\* call on its own, once it is windowMs old.
CalendarIsSlidingLog ==
  /\ (adapter \in CalendarAdapters /\ last.tool # "none") =>
       last.ok = reference[last.tool].sliding
  /\ adapter \in FetchAdapters => requestCount.second = admitted.short
  /\ adapter \in TwoWindowAdapters => requestCount.minute = admitted.long

\* google-calendar admitted a call that the fixed-window counter rejects: the
\* oldest call of the window had just become windowMs old.
AdmittedWhereFixedWindowRejects ==
  /\ adapter \in CalendarAdapters
  /\ last.tool # "none"
  /\ last.ok /\ ~reference[last.tool].fixed
  /\ reference[last.tool].sliding

\* C22: in brasil-api, ploomes-crm and slack, whose windows are fixed-window
\* counters of N per W, no interval of length W or less holds more than 2N
\* admitted calls, for the second window and for the minute window.
BoundaryBurstBounded ==
  adapter \in TwoWindowAdapters =>
    /\ Len(Within(history["all"], now, SecondMs)) <= PerSecondMax + PerSecondMax
    /\ Len(Within(history["all"], now, MinuteMs)) <= PerMinuteMax + PerMinuteMax

\* A burst at the boundary of the second window: 2N calls were admitted in an
\* interval shorter than the window, N before the reset and N after it.
BoundaryBurst ==
  /\ adapter \in TwoWindowAdapters
  /\ last.ok
  /\ Len(Younger(history["all"], now, SecondMs)) = PerSecondMax + PerSecondMax
  /\ requestCount.second = PerSecondMax
  /\ requestCount.lastSecondReset = now

\* The admitted calls of a log made at time t or later.
Since(log, t) == SelectSeq(log, LAMBDA x : x >= t)

\* C23: with several async calls in flight at once, every admitted call is
\* counted and no maximum is exceeded: each counter equals the number of
\* calls admitted since its window's reset and is within its maximum, and
\* google-calendar's list holds exactly the admitted calls of its window.
CheckAndIncrementAtomic ==
  /\ adapter \in TwoWindowAdapters =>
       /\ requestCount.second = Len(Since(history["all"], requestCount.lastSecondReset))
       /\ requestCount.minute = Len(Since(history["all"], requestCount.lastMinuteReset))
       /\ requestCount.second <= Limits.perSecond
       /\ requestCount.minute <= Limits.perMinute
  /\ adapter = "brave-search" =>
       /\ requestCount.second = Len(Since(history["all"], requestCount.lastReset))
       /\ requestCount.month = Len(history["all"])
       /\ requestCount.second <= Limits.perSecond
       /\ requestCount.month <= Limits.perMonth
  /\ adapter \in CalendarAdapters =>
       \A k \in Tools("google-calendar") :
         /\ RecentTimestamps(requestTimestamps[k], now) = Younger(history[k], now, windowMs)
         /\ Len(requestTimestamps[k]) <= maxRequestsPerWindow

\* Two admitted calls are suspended on their outbound requests at once and a
\* third call, made meanwhile, was rejected.
ConcurrentCallsCounted ==
  \E i, j, r \in Tasks :
    /\ i # j
    /\ tasks[i].at = "fetch" /\ tasks[j].at = "fetch"
    /\ tasks[r].at = "done" /\ ~tasks[r].ok
    /\ adapter \in TwoWindowAdapters
    /\ requestCount.second = PerSecondMax

\* C24 as stated: once an invocation has returned its payload, none of the
\* outbound requests it started is still under way.
NothingInFlightAfterOutcome ==
  \A i \in Inv :
    pc[i] = "done" => \A s \in Slots : reqs[i][s].st \notin {"inflight", "body", "errbody"}

\* The error texts that name the timeout bound: withTimeout's "Operation
\* timed out after <timeoutMs>ms" does, the AbortError of a fetch aborted by
\* fetchWithTimeout ("This operation was aborted") does not.
CarriesTimeoutBound(text) == text = "timeout"

\* C25 as stated: in every adapter the error payload returned for a timeout
\* names the timeout bound.
TimeoutErrorCarriesBound ==
  \A i \in Inv :
    \A n \in 1..Len(outcomes[i]) :
      outcomes[i][n].cause = "timer" => CarriesTimeoutBound(outcomes[i][n].text)

\* C26 as stated: in every adapter an exception or rejection that nothing
\* caught does not end the running process.
UncaughtErrorsAbsorbed == process.cause # "uncaught"

\* C27: brave-search's month counter never decreases, and once perMonth
\* calls were admitted the counter stays where it is and every later call of
\* checkRateLimit is rejected, however much time has passed.
MonthCounterNeverReset ==
  [][adapter = "brave-search" =>
       /\ requestCount'.month >= requestCount.month
       /\ requestCount.month >= Limits.perMonth =>
            /\ requestCount'.month = requestCount.month
            /\ used' = used
            /\ last' # last => ~last'.ok]_vars

\* More than a month after the module was loaded, a call that found the
\* second window elapsed was rejected for the month counter alone.
RejectedAfterAMonth ==
  /\ adapter = "brave-search"
  /\ now - ProcessStart > MonthMs
  /\ requestCount.month = Limits.perMonth
  /\ ~last.ok
  /\ requestCount.second = 0
  /\ requestCount.lastReset = now

\* C28: google-calendar bounds each operation type over a sliding interval:
\* no interval shorter than windowMs holds more than maxRequestsPerWindow
\* admitted calls of one type, the stored list never has more entries than
\* that, a call is admitted as soon as the oldest stored timestamp is windowMs
\* old, and it is rejected while the list is full and its oldest timestamp
\* is younger.
SlidingIntervalBound ==
  adapter \in CalendarAdapters =>
    \A k \in Tools(adapter) :
      LET ts == requestTimestamps[k]
          c == Check(adapter, LimiterState, k, now)
      IN  /\ Len(Younger(history[k], now, windowMs)) <= maxRequestsPerWindow
          /\ Len(ts) <= maxRequestsPerWindow
          /\ (ts # <<>> /\ now - ts[1] >= windowMs) => c.ok
          /\ (Len(ts) = maxRequestsPerWindow /\ now - ts[1] < windowMs) => ~c.ok

\* A call was rejected with the list full; now the oldest stored timestamp
\* is exactly windowMs old and the next call of that type is admitted.
AdmissibleAgainWhenOldestExpired ==
  \E k \in Tools(adapter) :
    /\ adapter \in CalendarAdapters
    /\ last.tool = k /\ ~last.ok
    /\ Len(requestTimestamps[k]) = maxRequestsPerWindow
    /\ now - requestTimestamps[k][1] = windowMs
    /\ Check(adapter, LimiterState, k, now).ok

\* Slot s and event e share more than an instant.
Overlap(s, e) == s.start < e.end /\ e.start < s.end

\* C29 as stated: no slot findAvailability returns overlaps a listed event
\* that is not transparent.
NoSlotOverlapsBusyEvent ==
  availability.returned =>
    \A n \in 1..Len(availability.availableSlots), m \in 1..Len(availability.events) :
      availability.events[m].transparency # "transparent" =>
        ~Overlap(availability.availableSlots[n], availability.events[m])

\* C30: for a positive durationMinutes and listed events with start <= end
\* that meet the range, every slot returned lasts exactly durationMinutes and
\* lies within [timeMin, timeMax], and the slots come in strictly increasing
\* order without overlapping one another.
SlotsWellFormed ==
  availability.returned =>
    LET slots == availability.availableSlots
    IN  /\ \A n \in 1..Len(slots) :
             /\ slots[n].end - slots[n].start = availability.durationMinutes * MsPerMinute
             /\ availability.timeMin <= slots[n].start
             /\ slots[n].end <= availability.timeMax
        /\ \A n \in 1..Len(slots), m \in 1..Len(slots) :
             n < m => slots[n].start < slots[m].start /\ slots[n].end <= slots[m].start

\* A call returned a slot before, between and after two busy events.
SlotsAroundBusyEvents ==
  /\ availability.returned
  /\ Len(availability.events) = MaxEvents
  /\ \A m \in 1..Len(availability.events) :
       /\ BusyFilter(availability.events[m])
       /\ availability.events[m].start < availability.events[m].end
  /\ Len(availability.availableSlots) = MaxEvents + 1
====
